---- MODULE Spec2Model ----
(***************************************************************************)
(* InfinitePager (react-native-infinite-pager): the gesture-to-page state  *)
(* machine of one pager and the arbitration of nested pagers that share    *)
(* the activePagers registry of their root.                                *)
(*                                                                         *)
(* Numbers.  translate, startTranslate and spring targets are JavaScript   *)
(* numbers.  They are held in fixed point, Px units to the pixel, so that  *)
(* the halving done by bouncePct = 0.5 stays exact; NaN is a value of its  *)
(* own and the index bounds may be -Infinity / +Infinity.                  *)
(***************************************************************************)
EXTENDS Integers, Sequences, FiniteSets, TLC

\* ------------------------------------------------------------------ bounds
\* inputs of a run: gestures begun, imperative calls and layout events
MaxInputs == 3
\* page-change notifications waiting for the JS thread, per pager
MaxQueue == 2

\* fixed-point resolution: the bounce of a gesture halves at most once
Px == 2 ^ MaxInputs

\* ------------------------------------------------------- JavaScript numbers
NaN == 88888888
Infinity == 77777777
IsNaN(x) == x = NaN
IsFinite(x) == x # NaN /\ x # Infinity /\ x # -Infinity

Abs(x) == IF x < 0 THEN -x ELSE x

\* a + b, for a, b finite or NaN
Plus(a, b) == IF IsNaN(a) \/ IsNaN(b) THEN NaN ELSE a + b

\* a * b, for a finite, infinite or NaN and b finite or NaN
Times(a, b) ==
  IF IsNaN(a) \/ IsNaN(b) THEN NaN
  ELSE IF ~IsFinite(a)
       THEN (IF b = 0 THEN NaN ELSE IF b > 0 THEN a ELSE -a)
       ELSE a * b

\* n / d as a number class when it is not finite, for d >= 0:
\* the quotient itself is kept as the pair (n, d) by the callers
DivClass(n, d) ==
  IF IsNaN(n) THEN NaN
  ELSE IF d # 0 THEN 0
  ELSE IF n = 0 THEN NaN
  ELSE IF n > 0 THEN Infinity ELSE -Infinity

\* Math.round(n / d): the nearest integer, halves toward +Infinity
MathRound(n, d) ==
  IF DivClass(n, d) # 0 THEN DivClass(n, d)
  ELSE (2 * n + d) \div (2 * d)

\* n % d of JavaScript: the sign of the dividend, NaN for d = 0
JsRem(n, d) ==
  IF IsNaN(n) \/ d = 0 THEN NaN
  ELSE IF n >= 0 THEN n % d ELSE -((-n) % d)

\* a < b and a <= b of JavaScript: false when either side is NaN
Lt(a, b) == ~IsNaN(a) /\ ~IsNaN(b) /\ a < b
Le(a, b) == ~IsNaN(a) /\ ~IsNaN(b) /\ a <= b

RECURSIVE Gcd(_, _)
Gcd(a, b) == IF b = 0 THEN a ELSE Gcd(b, a % b)

\* the quotient n / d (d > 0) as a reduced fraction; NaN has numerator NaN
Quotient(n, d) ==
  IF IsNaN(n) THEN [num |-> NaN, den |-> 1]
  ELSE LET g == Gcd(Abs(n), d) IN [num |-> n \div g, den |-> d \div g]

\* ------------------------------------------------------------ props (inputs)
PagerNames == {"p0", "p1", "p2"}

\* flingVelocity = 500 (default prop)
flingVelocity == 500
\* the dead zone of onUpdate's cross-axis test, in pixels
CrossAxisDeadZone == 10

\* sizes the layout callback reports along the paging axis (pixels)
LayoutSizes == {200, 300}
\* translationX / translationY of update and end events (pixels)
Drags == {-350, -50, 50, 350}
\* velocityX / velocityY of end events
Velocities == {-600, 0, 600}
\* x / y of the touch at onBegin, and of later touches
InitTouches == {100}
Touches == {50, 150}
\* indices passed to setPage
SetPageIndices == {1, 3}
\* props of the pagers checked: minIndex, maxIndex, bouncePct in halves
\* (0, 0.5, 1) and initialIndex
PagerProps ==
  { <<-Infinity, Infinity, 0, 0>>, <<-Infinity, Infinity, 0, 1>>,
    <<0, 2, 0, 0>>, <<0, 2, 1, 0>>, <<0, 2, 2, 1>>, <<0, 2, 0, 3>>,
    <<1, 2, 0, 0>>, <<1, 2, 1, 0>> }

\* ------------------------------------------------------------ the context
\* the parent of a pager that is rendered inside no other pager
NoParent == "none"

\* React.createContext({activePagers: makeMutable([]),
\* pagers: makeMutable([]), nestingDepth: -1}): the default value, read by
\* the provider of a pager that has no pager above it
InfinitePagerContext ==
  [nestingDepth |-> -1, activePagers |-> "InfinitePagerContext",
   pagers |-> "InfinitePagerContext"]

\* the pairs of shared values that exist: rootPagers / rootActivePagers of
\* the provider wrapped around each pager, and the pair of the default
\* context value; each is named after its creator
Providers == PagerNames \cup {"InfinitePagerContext"}

\* a provider that never installs its own shared values
RECURSIVE InfinitePagerProviderInherit(_, _)
InfinitePagerProviderInherit(parent, p) ==
  LET ctx == IF parent[p] = NoParent THEN InfinitePagerContext
             ELSE InfinitePagerProviderInherit(parent, parent[p])
  IN  [nestingDepth |-> ctx.nestingDepth + 1,
       activePagers |-> ctx.activePagers,
       pagers |-> ctx.pagers]

\* InfinitePagerProvider, wrapped around pager p by withWrappedProvider:
\* the context value it provides to p, computed from the value it reads
\* from the nearest provider above it (parent[p]) or the default
RECURSIVE InfinitePagerProvider(_, _)
InfinitePagerProvider(parent, p) ==
  LET ctx == IF parent[p] = NoParent THEN InfinitePagerContext
             ELSE InfinitePagerProvider(parent, parent[p])
      isRoot == ctx.nestingDepth = -1
  IN  [nestingDepth |-> ctx.nestingDepth + 1,
       activePagers |-> IF isRoot THEN p ELSE ctx.activePagers,
       pagers |-> IF isRoot THEN p ELSE ctx.pagers]

\* pagers rendered side by side, none inside another
Roots == [p \in PagerNames |-> NoParent]
\* p0 is the root, p1 is rendered inside p0 and p2 inside p1
Chain ==
  [p \in PagerNames |->
     CASE p = "p0" -> NoParent [] p = "p1" -> "p0" [] p = "p2" -> "p1"]

\* ---------------------------------------------------------------- the state
VARIABLES
  cfg,            \* props and context of each pager (fixed at mount)
  pagers,         \* context: ids of the mounted pagers, per provider
  activePagers,   \* context: ids of the pagers with an active touch,
                  \* per provider
  isGestureLocked,\* derived value, per pager
  pageSize,       \* pageWidth / pageHeight along the paging axis
  layoutPromise,  \* onLayoutPromiseRef: Pending or the first layout size
  awaiting,       \* async calls (onMount, setPage) awaiting the promise
  translate,      \* translateX / translateY along the paging axis
  spring,         \* the withSpring animation running on translate
  pageAnim,       \* pageAnim: the page projection, a fraction
  reactionPrev,   \* the previous result of the reaction's prepare
  jsQueue,        \* runOnJS(onPageChangeInternal) calls not yet run
  curIndex,       \* React state curIndex
  startTranslate, \* startTranslate
  initTouch,      \* initTouchX / initTouchY
  gState,         \* state of the pan gesture recognizer
  gesturesDisabled, \* prop gesturesDisabled (gesturesDisabledAnim, enabled)
  inputs          \* gestures begun, imperative calls and layouts so far

vars == <<cfg, pagers, activePagers, isGestureLocked, pageSize, layoutPromise,
          awaiting, translate, spring, pageAnim, reactionPrev, jsQueue,
          curIndex, startTranslate, initTouch, gState, gesturesDisabled,
          inputs>>

Pending == -1
NoSpring == [running |-> FALSE, toValue |-> 0]
SpringTo(v) == [running |-> TRUE, toValue |-> v]

\* const orientation = vertical ? "vertical" : "horizontal"
orientation(p) == IF cfg[p].vertical THEN "vertical" ELSE "horizontal"

\* an id without the random salt
pagerIdUnsalted(p) == <<orientation(p), cfg[p].nestingDepth, "">>

\* `${orientation}:${nestingDepth}:${Math.random()}`; the pager's name
\* stands for the random salt
pagerId(p) == <<orientation(p), cfg[p].nestingDepth, p>>

\* the value of the activePagers / pagers shared value the pager got
\* from useContext(InfinitePagerContext)
activePagersOf(p) == activePagers[cfg[p].activePagers]
pagersOf(p) == pagers[cfg[p].pagers]

Mounted == {p \in PagerNames : pagerId(p) \in pagersOf(p)}

\* initIdx
initIdx(p) ==
  IF cfg[p].initialIndex # 0 THEN cfg[p].initialIndex
  ELSE IF cfg[p].minIndex > 0 THEN cfg[p].minIndex
  ELSE IF cfg[p].maxIndex < 0 THEN cfg[p].maxIndex
  ELSE 0

\* bounceTrans = pageTrans * (1 - bouncePct), bouncePct = bounceHalves / 2
BounceTrans(pageTrans, bounceHalves) ==
  IF IsNaN(pageTrans) THEN NaN ELSE (pageTrans * (2 - bounceHalves)) \div 2

Neg(x) == IF IsNaN(x) THEN NaN ELSE -x

\* ---------------------------------------------------------- derived values
\* isGestureLocked with "<" for "<=": a pager registered alone locks itself
LockedByStrict(p, active) ==
  LET sameOrientation == SelectSeq(active, LAMBDA v : v[1] = orientation(p))
      isDeepestInOrientation ==
        \A i \in 1..Len(sameOrientation) :
          sameOrientation[i][2] < cfg[p].nestingDepth
  IN  Len(active) # 0 /\ ~isDeepestInOrientation

\* isGestureLocked without the filter on the orientation
LockedByAnyOrientation(p, active) ==
  LET isDeepest ==
        \A i \in 1..Len(active) : active[i][2] <= cfg[p].nestingDepth
  IN  Len(active) # 0 /\ ~isDeepest

\* isGestureLocked: the gesture goes to the most-nested active pager of
\* each orientation, every other pager is locked
LockedBy(p, active) ==
  LET sameOrientation == SelectSeq(active, LAMBDA v : v[1] = orientation(p))
      isDeepestInOrientation ==
        \A i \in 1..Len(sameOrientation) :
          sameOrientation[i][2] <= cfg[p].nestingDepth
  IN  Len(active) # 0 /\ ~isDeepestInOrientation

\* const isAtEdge = isMinIndex || isMaxIndex: the || of two DerivedValue
\* objects is the first object, which is truthy
isMinIndex(p) == Le(curIndex[p], cfg[p].minIndex)
isMaxIndex(p) == Le(cfg[p].maxIndex, curIndex[p])
isAtEdge(p) == TRUE

\* pageAnim without "* -1"
ProjectionUnsigned(p, t, size) ==
  IF size # 0 THEN Quotient(t, size * Px) ELSE pageAnim[p]

\* pageAnim.value = (translate.value / pageSize.value) * -1, if pageSize.value
Projection(p, t, size) ==
  IF size # 0 THEN Quotient(Neg(t), size * Px) ELSE pageAnim[p]

\* Math.round(pageAnim.value)
Rounded(pa) == MathRound(pa.num, pa.den)

\* the reaction: runOnJS(onPageChangeInternal)(cur) if cur !== prev
\* (NaN !== NaN holds)
Reaction(p, pa, size) ==
  LET cur == Rounded(pa)
  IN  IF cur # reactionPrev[p] \/ (IsNaN(cur) /\ size # 0)
      THEN Append(jsQueue[p], cur) ELSE jsQueue[p]

\* A write of translate (value t, animation sp) and of pageSize (size) of
\* pager p, followed by the mappers that depend on them.
Write(p, t, sp, size) ==
  LET pa == Projection(p, t, size)
  IN  /\ translate' = [translate EXCEPT ![p] = t]
      /\ spring' = [spring EXCEPT ![p] = sp]
      /\ pageSize' = [pageSize EXCEPT ![p] = size]
      /\ pageAnim' = [pageAnim EXCEPT ![p] = pa]
      /\ reactionPrev' = [reactionPrev EXCEPT ![p] = Rounded(pa)]
      /\ jsQueue' = [jsQueue EXCEPT ![p] = Reaction(p, pa, size)]
      /\ Len(jsQueue'[p]) <= MaxQueue

\* A write by pager p of the activePagers it got from the context, followed
\* by the isGestureLocked mappers.
WriteActive(p, updated) ==
  /\ activePagers' = [activePagers EXCEPT ![cfg[p].activePagers] = updated]
  /\ isGestureLocked' =
       [q \in PagerNames |-> LockedBy(q, activePagers'[cfg[q].activePagers])]

\* a filter that removes nothing
WithoutNone(active, id) == active

Without(active, id) == SelectSeq(active, LAMBDA v : v # id)
Includes(active, id) == \E i \in 1..Len(active) : active[i] = id

\* ------------------------------------------------------ imperative calls
\* the range check of setPage without "index > maxIndex"
OutOfRangeBelow(p, index) == Lt(index, cfg[p].minIndex)

\* if (index < minIndex || index > maxIndex) return
OutOfRange(p, index) ==
  Lt(index, cfg[p].minIndex) \/ Lt(cfg[p].maxIndex, index)

\* setPage with updatedTranslate = index * pSize, without "* -1"
SetPageBodyUnsigned(p, index, animated, t, sp, size, layoutPageSize) ==
  LET pSize == IF size # 0 THEN size ELSE layoutPageSize
      updatedTranslate == Times(Times(index, pSize), Px)
  IN  IF OutOfRange(p, index)
      THEN <<t, sp>>
      ELSE IF animated THEN <<t, SpringTo(updatedTranslate)>>
      ELSE <<updatedTranslate, NoSpring>>

\* setPage with pSize = layoutPageSize, the size of the first layout
SetPageBodyFirstSize(p, index, animated, t, sp, size, layoutPageSize) ==
  LET updatedTranslate == Neg(Times(Times(index, layoutPageSize), Px))
  IN  IF OutOfRange(p, index)
      THEN <<t, sp>>
      ELSE IF animated THEN <<t, SpringTo(updatedTranslate)>>
      ELSE <<updatedTranslate, NoSpring>>

\* the body of setPage after the await, with layoutPageSize resolved:
\* the pair <<translate, spring>> it leaves
SetPageBody(p, index, animated, t, sp, size, layoutPageSize) ==
  LET pSize == IF size # 0 THEN size ELSE layoutPageSize
      updatedTranslate == Neg(Times(Times(index, pSize), Px))
  IN  IF OutOfRange(p, index)
      THEN <<t, sp>>
      ELSE IF animated THEN <<t, SpringTo(updatedTranslate)>>
      ELSE <<updatedTranslate, NoSpring>>

\* the body of onMount after the await
OnMountBody(p, size, layoutPageSize) ==
  LET pSize == IF size # 0 THEN size ELSE layoutPageSize
  IN  <<-(initIdx(p) * pSize * Px), NoSpring>>

\* the continuations awaiting the layout promise, run newest first
RECURSIVE RunAwaitingNewestFirst(_, _, _, _, _)
RunAwaitingNewestFirst(p, queue, t, sp, size) ==
  IF queue = <<>> THEN <<t, sp>>
  ELSE LET c == queue[Len(queue)]
           r == IF c.op = "onMount" THEN OnMountBody(p, size, size)
                ELSE SetPageBody(p, c.index, c.animated, t, sp, size, size)
       IN  RunAwaitingNewestFirst(p, SubSeq(queue, 1, Len(queue) - 1),
                                  r[1], r[2], size)

\* the continuations awaiting the layout promise, run in the order of
\* their awaits
RECURSIVE RunAwaiting(_, _, _, _, _)
RunAwaiting(p, queue, t, sp, size) ==
  IF queue = <<>> THEN <<t, sp>>
  ELSE LET c == Head(queue)
           r == IF c.op = "onMount" THEN OnMountBody(p, size, size)
                ELSE SetPageBody(p, c.index, c.animated, t, sp, size, size)
       IN  RunAwaiting(p, Tail(queue), r[1], r[2], size)

\* ------------------------------------------------------------------- Init
Unmounted(p) ==
  [mounted |-> FALSE, vertical |-> FALSE, parent |-> NoParent,
   nestingDepth |-> InfinitePagerProvider(Roots, p).nestingDepth,
   activePagers |-> InfinitePagerProvider(Roots, p).activePagers,
   pagers |-> InfinitePagerProvider(Roots, p).pagers,
   minIndex |-> -Infinity, maxIndex |-> Infinity, bounceHalves |-> 0,
   initialIndex |-> 0, debugTag |-> FALSE, PageComponent |-> TRUE,
   renderPage |-> FALSE]

\* one root pager, with any props
SinglePager ==
  {[p \in PagerNames |->
      IF p = "p0"
      THEN [mounted |-> TRUE, vertical |-> FALSE, parent |-> NoParent,
            nestingDepth |-> InfinitePagerProvider(Roots, p).nestingDepth,
            activePagers |-> InfinitePagerProvider(Roots, p).activePagers,
            pagers |-> InfinitePagerProvider(Roots, p).pagers,
            minIndex |-> c[1], maxIndex |-> c[2], bounceHalves |-> c[3],
            initialIndex |-> c[4], debugTag |-> FALSE,
            PageComponent |-> TRUE, renderPage |-> FALSE]
      ELSE Unmounted(p)] :
    c \in PagerProps}

InitWith(configs) ==
  /\ cfg \in configs
  /\ pagers = [r \in Providers |->
                 {pagerId(p) : p \in {q \in PagerNames :
                                        cfg[q].mounted /\ cfg[q].pagers = r}}]
  /\ activePagers = [r \in Providers |-> <<>>]
  /\ isGestureLocked = [p \in PagerNames |-> FALSE]
  /\ pageSize = [p \in PagerNames |-> 0]
  /\ layoutPromise = [p \in PagerNames |-> Pending]
  /\ awaiting = [p \in PagerNames |->
                   IF cfg[p].mounted THEN <<[op |-> "onMount"]>> ELSE <<>>]
  /\ translate = [p \in PagerNames |-> 0]
  /\ spring = [p \in PagerNames |-> NoSpring]
  /\ pageAnim = [p \in PagerNames |-> [num |-> 0, den |-> 1]]
  /\ reactionPrev = [p \in PagerNames |-> 0]
  /\ jsQueue = [p \in PagerNames |-> IF cfg[p].mounted THEN <<0>> ELSE <<>>]
  /\ curIndex = [p \in PagerNames |-> 0]
  /\ startTranslate = [p \in PagerNames |-> 0]
  /\ initTouch = [p \in PagerNames |-> [x |-> 0, y |-> 0]]
  /\ gState = [p \in PagerNames |-> "UNDETERMINED"]
  /\ gesturesDisabled = [p \in PagerNames |-> FALSE]
  /\ inputs = 0

Init == InitWith(SinglePager)

\* a tree of nested pagers: p0 is the root, p1 its child, p2 the child of
\* p1; p1 has pages 0..2 and starts on page 1; two nestings of the
\* orientations (H-H-V and H-V-H), with and without a debugTag
PagerTrees ==
  {[p \in PagerNames |->
      [mounted |-> TRUE, vertical |-> v[p], parent |-> Chain[p],
       nestingDepth |-> InfinitePagerProvider(Chain, p).nestingDepth,
       activePagers |-> InfinitePagerProvider(Chain, p).activePagers,
       pagers |-> InfinitePagerProvider(Chain, p).pagers,
       minIndex |-> IF p = "p1" THEN 0 ELSE -Infinity,
       maxIndex |-> IF p = "p1" THEN 2 ELSE Infinity,
       bounceHalves |-> 0, initialIndex |-> IF p = "p1" THEN 1 ELSE 0,
       debugTag |-> tag, PageComponent |-> TRUE, renderPage |-> FALSE]] :
    v \in {[p \in PagerNames |-> p = "p2"], [p \in PagerNames |-> p = "p1"]},
    tag \in BOOLEAN}

\* the tree after the first layout of each pager (TreeLayoutSize along
\* the paging axis) and the delivery of the mount notification
TreeLayoutSize == 300
InitLaidOut(trees) ==
  /\ cfg \in trees
  /\ pagers = [r \in Providers |->
                 {pagerId(p) : p \in {q \in PagerNames : cfg[q].pagers = r}}]
  /\ activePagers = [r \in Providers |-> <<>>]
  /\ isGestureLocked = [p \in PagerNames |-> FALSE]
  /\ pageSize = [p \in PagerNames |-> TreeLayoutSize]
  /\ layoutPromise = [p \in PagerNames |-> TreeLayoutSize]
  /\ awaiting = [p \in PagerNames |-> <<>>]
  /\ translate = [p \in PagerNames |->
                    OnMountBody(p, TreeLayoutSize, TreeLayoutSize)[1]]
  /\ spring = [p \in PagerNames |-> NoSpring]
  /\ pageAnim = [p \in PagerNames |->
                   Quotient(Neg(translate[p]), TreeLayoutSize * Px)]
  /\ reactionPrev = [p \in PagerNames |-> Rounded(pageAnim[p])]
  /\ jsQueue = [p \in PagerNames |-> <<>>]
  /\ curIndex = [p \in PagerNames |-> reactionPrev[p]]
  /\ startTranslate = [p \in PagerNames |-> 0]
  /\ initTouch = [p \in PagerNames |-> [x |-> 0, y |-> 0]]
  /\ gState = [p \in PagerNames |-> "UNDETERMINED"]
  /\ gesturesDisabled = [p \in PagerNames |-> FALSE]
  /\ inputs = 0

InitTree == InitLaidOut(PagerTrees)

\* ---------------------------------------------------------------- actions
\* onLayout: pageWidth.value / pageHeight.value = layout size, and the
\* layout promise is resolved (only its first resolution counts); the
\* continuations awaiting it then run; assigning a shared value the value
\* it holds runs no mapper
onLayout(p, size) ==
  /\ inputs < MaxInputs
  /\ inputs' = inputs + 1
  /\ IF layoutPromise[p] = Pending
     THEN /\ layoutPromise' = [layoutPromise EXCEPT ![p] = size]
          /\ awaiting' = [awaiting EXCEPT ![p] = <<>>]
          /\ LET r == RunAwaiting(p, awaiting[p], translate[p], spring[p], size)
             IN  Write(p, r[1], r[2], size)
     ELSE /\ UNCHANGED <<layoutPromise, awaiting>>
          /\ IF size = pageSize[p]
             THEN UNCHANGED <<translate, spring, pageSize, pageAnim,
                              reactionPrev, jsQueue>>
             ELSE Write(p, translate[p], spring[p], size)
  /\ UNCHANGED <<cfg, gesturesDisabled, pagers, activePagers, isGestureLocked, curIndex,
                 startTranslate, initTouch, gState>>

\* setPage(index, {animated}): awaits the layout promise, then moves; out
\* of range it returns before any assignment
setPage(p, index, animated) ==
  /\ inputs < MaxInputs
  /\ inputs' = inputs + 1
  /\ IF layoutPromise[p] = Pending
     THEN /\ awaiting' = [awaiting EXCEPT ![p] =
                 Append(@, [op |-> "setPage", index |-> index,
                            animated |-> animated])]
          /\ UNCHANGED <<translate, spring, pageSize, pageAnim, reactionPrev,
                         jsQueue>>
     ELSE /\ UNCHANGED awaiting
          /\ IF OutOfRange(p, index)
             THEN UNCHANGED <<translate, spring, pageSize, pageAnim,
                              reactionPrev, jsQueue>>
             ELSE LET r == SetPageBody(p, index, animated, translate[p],
                                       spring[p], pageSize[p],
                                       layoutPromise[p])
                  IN  Write(p, r[1], r[2], pageSize[p])
  /\ UNCHANGED <<cfg, gesturesDisabled, pagers, activePagers, isGestureLocked, layoutPromise,
                 curIndex, startTranslate, initTouch, gState>>

\* incrementPage: setPage(curIndexRef.current + 1, options)
incrementPage(p, animated) == setPage(p, Plus(curIndex[p], 1), animated)

\* decrementPage: setPage(curIndexRef.current - 1, options)
decrementPage(p, animated) == setPage(p, Plus(curIndex[p], -1), animated)

\* a JS thread that runs the newest queued call first
onPageChangeNewestFirst(p) ==
  /\ jsQueue[p] # <<>>
  /\ curIndex' = [curIndex EXCEPT ![p] = jsQueue[p][Len(jsQueue[p])]]
  /\ jsQueue' = [jsQueue EXCEPT ![p] = SubSeq(@, 1, Len(@) - 1)]
  /\ UNCHANGED <<cfg, gesturesDisabled, pagers, activePagers, isGestureLocked,
                 pageSize, layoutPromise, awaiting, translate, spring,
                 pageAnim, reactionPrev, startTranslate, initTouch, gState,
                 inputs>>

\* the JS thread runs one queued onPageChangeInternal(pg):
\* onPageChange?.(pg); setCurIndex(pg)
onPageChangeInternal(p) ==
  /\ jsQueue[p] # <<>>
  /\ curIndex' = [curIndex EXCEPT ![p] = Head(jsQueue[p])]
  /\ jsQueue' = [jsQueue EXCEPT ![p] = Tail(@)]
  /\ UNCHANGED <<cfg, gesturesDisabled, pagers, activePagers, isGestureLocked, pageSize,
                 layoutPromise, awaiting, translate, spring, pageAnim,
                 reactionPrev, startTranslate, initTouch, gState, inputs>>

\* ----------------------------------------------------------- pan gesture
\* the axis of an event that the pager pages along, and the other one
MainAxis(p, evt) == IF cfg[p].vertical THEN evt.y ELSE evt.x
CrossAxis(p, evt) == IF cfg[p].vertical THEN evt.x ELSE evt.y

\* panGesture.onBegin; .enabled(!gesturesDisabled): a disabled recognizer
\* begins no gesture
onBegin(p, evt) ==
  /\ gState[p] = "UNDETERMINED"
  /\ ~gesturesDisabled[p]
  /\ inputs < MaxInputs
  /\ inputs' = inputs + 1
  /\ gState' = [gState EXCEPT ![p] = "BEGAN"]
  /\ IF ~isAtEdge(p)
     THEN WriteActive(p, Append(activePagersOf(p), pagerId(p)))
     ELSE UNCHANGED <<activePagers, isGestureLocked>>
  /\ startTranslate' = [startTranslate EXCEPT ![p] = translate[p]]
  /\ initTouch' = [initTouch EXCEPT ![p] = evt]
  /\ UNCHANGED <<cfg, gesturesDisabled, pagers, pageSize, layoutPromise, awaiting, translate,
                 spring, pageAnim, reactionPrev, jsQueue, curIndex>>

\* swipingPastEnd with the two directions exchanged
swipingPastEndReversed(p, evt) ==
  LET evtTranslate == MainAxis(p, evt) - MainAxis(p, initTouch[p])
  IN  \/ (isMinIndex(p) /\ evtTranslate < 0)
      \/ (isMaxIndex(p) /\ evtTranslate > 0)

\* swipingPastEnd of onTouchesMove
swipingPastEnd(p, evt) ==
  LET evtTranslate == MainAxis(p, evt) - MainAxis(p, initTouch[p])
  IN  \/ (isMinIndex(p) /\ evtTranslate > 0)
      \/ (isMaxIndex(p) /\ evtTranslate < 0)

\* shouldFailSelf without "(!bouncePct && swipingPastEnd)"
shouldFailSelfNoRange(p, evt) == isGestureLocked[p] \/ gesturesDisabled[p]

\* shouldFailSelf of onTouchesMove
shouldFailSelf(p, evt) ==
  \/ (cfg[p].bounceHalves = 0 /\ swipingPastEnd(p, evt))
  \/ isGestureLocked[p]
  \/ gesturesDisabled[p]

\* panGesture.onTouchesMove
onTouchesMove(p, evt) ==
  /\ gState[p] \in {"BEGAN", "ACTIVE"}
  /\ IF shouldFailSelf(p, evt)
     THEN /\ IF cfg[p].debugTag
             THEN WriteActive(p, Without(activePagersOf(p), pagerId(p)))
             ELSE UNCHANGED <<activePagers, isGestureLocked>>
          /\ gState' = [gState EXCEPT ![p] =
                          IF @ = "ACTIVE" THEN "FAILED_ACTIVE" ELSE "FAILED"]
     ELSE /\ IF ~Includes(activePagersOf(p), pagerId(p))
             THEN WriteActive(p, Append(activePagersOf(p), pagerId(p)))
             ELSE UNCHANGED <<activePagers, isGestureLocked>>
          /\ UNCHANGED gState
  /\ UNCHANGED <<cfg, gesturesDisabled, pagers, pageSize, layoutPromise, awaiting, translate,
                 spring, pageAnim, reactionPrev, jsQueue, curIndex,
                 startTranslate, initTouch, inputs>>

\* isSwipingCrossAxis of onUpdate
isSwipingCrossAxisUpdate(p, evt) ==
  /\ Abs(CrossAxis(p, evt)) > CrossAxisDeadZone
  /\ Abs(CrossAxis(p, evt)) > Abs(MainAxis(p, evt))

\* page >= minIndexAnim.value && page <= maxIndexAnim.value,
\* for page = -rawVal / pageSize.value
PageInRange(p, rawVal, size) ==
  LET class == DivClass(Neg(rawVal), size)
  IN  IF IsNaN(class) THEN FALSE
      ELSE IF class # 0
           THEN cfg[p].minIndex <= class /\ class <= cfg[p].maxIndex
           ELSE /\ (IsFinite(cfg[p].minIndex) =>
                      cfg[p].minIndex * size * Px <= -rawVal)
                /\ (IsFinite(cfg[p].maxIndex) =>
                      -rawVal <= cfg[p].maxIndex * size * Px)

\* the value onUpdate gives translate
UpdatedTranslate(p, rawVal, size) ==
  IF PageInRange(p, rawVal, size) THEN rawVal
  ELSE LET pageTrans == JsRem(rawVal, size * Px)
           bounceTrans == BounceTrans(pageTrans, cfg[p].bounceHalves)
       IN  Plus(rawVal, Neg(bounceTrans))

\* panGesture.onUpdate (the first update follows the activation)
onUpdate(p, evt) ==
  /\ gState[p] \in {"BEGAN", "ACTIVE"}
  /\ gState' = [gState EXCEPT ![p] = "ACTIVE"]
  /\ IF isGestureLocked[p] \/ isSwipingCrossAxisUpdate(p, evt)
     THEN UNCHANGED <<translate, spring, pageSize, pageAnim, reactionPrev,
                      jsQueue>>
     ELSE LET rawVal == Plus(startTranslate[p], MainAxis(p, evt) * Px)
          IN  Write(p, UpdatedTranslate(p, rawVal, pageSize[p]), NoSpring,
                    pageSize[p])
  /\ UNCHANGED <<cfg, gesturesDisabled, pagers, activePagers, isGestureLocked, layoutPromise,
                 awaiting, curIndex, startTranslate, initTouch, inputs>>

\* isFling by the velocity alone
isFlingByVelocity(p, evt, vel) == Abs(MainAxis(p, vel)) > flingVelocity

\* isFling of onEnd
isFling(p, evt, vel) ==
  IF isGestureLocked[p] \/ Abs(CrossAxis(p, evt)) > Abs(MainAxis(p, evt))
  THEN FALSE
  ELSE Abs(MainAxis(p, vel)) > flingVelocity

\* onEnd without "if (evtVelocity < 0) velocityModifier *= -1"
EndPageUnsigned(p, evt, vel) ==
  LET half == (pageSize[p] * Px) \div 2
      velocityModifier == IF isFling(p, evt, vel) THEN half ELSE 0
      rounded == MathRound(Plus(translate[p], velocityModifier),
                           pageSize[p] * Px)
      page == Neg(rounded)
      page1 == IF Lt(page, cfg[p].minIndex) THEN cfg[p].minIndex ELSE page
  IN  IF Lt(cfg[p].maxIndex, page1) THEN cfg[p].maxIndex ELSE page1

\* the page onEnd settles on
EndPage(p, evt, vel) ==
  LET evtVelocity == MainAxis(p, vel)
      half == (pageSize[p] * Px) \div 2
      modifier == IF isFling(p, evt, vel) THEN half ELSE 0
      velocityModifier == IF evtVelocity < 0 THEN -modifier ELSE modifier
      rounded == MathRound(Plus(translate[p], velocityModifier),
                           pageSize[p] * Px)
      page == Neg(rounded)
      page1 == IF Lt(page, cfg[p].minIndex) THEN cfg[p].minIndex ELSE page
  IN  IF Lt(cfg[p].maxIndex, page1) THEN cfg[p].maxIndex ELSE page1

\* panGesture.onEnd: translate.value = withSpring(-page * pageSize.value)
onEnd(p, evt, vel) ==
  /\ gState[p] \in {"ACTIVE", "FAILED_ACTIVE"}
  /\ gState' = [gState EXCEPT ![p] = "END"]
  /\ Write(p, translate[p],
           SpringTo(Times(Neg(EndPage(p, evt, vel)), pageSize[p] * Px)),
           pageSize[p])
  /\ UNCHANGED <<cfg, gesturesDisabled, pagers, activePagers, isGestureLocked, layoutPromise,
                 awaiting, curIndex, startTranslate, initTouch, inputs>>

\* panGesture.onFinalize
onFinalize(p) ==
  /\ gState[p] \in {"BEGAN", "FAILED", "END"}
  /\ gState' = [gState EXCEPT ![p] = "UNDETERMINED"]
  /\ WriteActive(p, Without(activePagersOf(p), pagerId(p)))
  /\ UNCHANGED <<cfg, gesturesDisabled, pagers, pageSize, layoutPromise, awaiting, translate,
                 spring, pageAnim, reactionPrev, jsQueue, curIndex,
                 startTranslate, initTouch, inputs>>

\* ----------------------------------------------------------------- spring
\* positions a spring passes on its way: the half pages strictly between
HalfPages == -8..8
Between(a, v, b) == (a < v /\ v < b) \/ (b < v /\ v < a)

\* one animation frame of withSpring short of rest
springFrame(p, k) ==
  /\ spring[p].running
  /\ IF IsNaN(translate[p]) \/ IsNaN(spring[p].toValue)
     THEN /\ k = 0
          /\ Write(p, NaN, spring[p], pageSize[p])
     ELSE LET v == k * ((pageSize[p] * Px) \div 2)
          IN  /\ Between(translate[p], v, spring[p].toValue)
              /\ Write(p, v, spring[p], pageSize[p])
  /\ UNCHANGED <<cfg, gesturesDisabled, pagers, activePagers, isGestureLocked, layoutPromise,
                 awaiting, curIndex, startTranslate, initTouch, gState,
                 inputs>>

\* the frame on which the spring comes to rest on its target
springRest(p) ==
  /\ spring[p].running
  /\ ~IsNaN(translate[p]) /\ ~IsNaN(spring[p].toValue)
  /\ Write(p, spring[p].toValue, NoSpring, pageSize[p])
  /\ UNCHANGED <<cfg, gesturesDisabled, pagers, activePagers, isGestureLocked, layoutPromise,
                 awaiting, curIndex, startTranslate, initTouch, gState,
                 inputs>>

\* ------------------------------------------------------------------- Next
Events ==
  {[x |-> d, y |-> 0] : d \in Drags} \cup {[x |-> 0, y |-> d] : d \in Drags}
EndEvents == {[x |-> 50, y |-> 0], [x |-> 0, y |-> 50]}
VelocityEvents ==
  {[x |-> v, y |-> 0] : v \in Velocities}
    \cup {[x |-> 0, y |-> v] : v \in Velocities}
TouchEvents == [x : Touches, y : Touches]
InitTouchEvents == [x : InitTouches, y : InitTouches]

Layout == \E p \in Mounted, size \in LayoutSizes : onLayout(p, size)
SetPage ==
  \E p \in Mounted, index \in SetPageIndices, animated \in BOOLEAN :
    setPage(p, index, animated)
IncrementPage == \E p \in Mounted, animated \in BOOLEAN : incrementPage(p, animated)
DecrementPage == \E p \in Mounted, animated \in BOOLEAN : decrementPage(p, animated)
PageChange == \E p \in Mounted : onPageChangeInternal(p)
Begin == \E p \in Mounted, evt \in InitTouchEvents : onBegin(p, evt)
TouchesMove == \E p \in Mounted, evt \in TouchEvents : onTouchesMove(p, evt)
Update == \E p \in Mounted, evt \in Events : onUpdate(p, evt)
End ==
  \E p \in Mounted, evt \in EndEvents, vel \in VelocityEvents :
    onEnd(p, evt, vel)
Finalize == \E p \in Mounted : onFinalize(p)
SpringFrame == \E p \in Mounted, k \in HalfPages : springFrame(p, k)
SpringRest == \E p \in Mounted : springRest(p)

Next ==
  \/ Layout
  \/ SetPage
  \/ IncrementPage
  \/ DecrementPage
  \/ PageChange
  \/ Begin
  \/ TouchesMove
  \/ Update
  \/ End
  \/ Finalize
  \/ SpringFrame
  \/ SpringRest

Spec == Init /\ [][Next]_vars

\* the spring runs its frames until it rests (the animation is driven on
\* every frame of the UI thread) and the JS thread runs the calls queued
\* by runOnJS
SpecFair == Spec /\ WF_vars(SpringRest) /\ WF_vars(PageChange)

\* the nested pagers, laid out
\* one drag along each axis, with and without a fling
TreeEvents == {[x |-> -50, y |-> 0], [x |-> 0, y |-> -50]}
TreeVelocities == {[x |-> -600, y |-> 0], [x |-> 0, y |-> 0]}
TreeUpdate == \E p \in Mounted, evt \in TreeEvents : onUpdate(p, evt)
TreeEnd ==
  \E p \in Mounted, evt \in TreeEvents, vel \in TreeVelocities :
    onEnd(p, evt, vel)

NextTree ==
  \/ PageChange
  \/ Begin
  \/ TouchesMove
  \/ TreeUpdate
  \/ TreeEnd
  \/ Finalize
  \/ SpringRest

SpecTree == InitTree /\ [][NextTree]_vars

\* ------------------------------------------------------- several trees
\* p1 is rendered inside p0, p2 is the root of a tree of its own
TwoTrees ==
  [p \in PagerNames |-> IF p = "p1" THEN "p0" ELSE NoParent]
\* p1 and p2 are rendered side by side inside p0
Siblings ==
  [p \in PagerNames |-> IF p = "p0" THEN NoParent ELSE "p0"]

\* the pagers of TwoTrees and of Siblings, laid out: all horizontal or p1
\* vertical, with and without a debugTag, each with what its provider
\* gives it
ForestTrees ==
  {[p \in PagerNames |->
      [mounted |-> TRUE, vertical |-> v[p], parent |-> f[p],
       nestingDepth |-> InfinitePagerProvider(f, p).nestingDepth,
       activePagers |-> InfinitePagerProvider(f, p).activePagers,
       pagers |-> InfinitePagerProvider(f, p).pagers,
       minIndex |-> -Infinity, maxIndex |-> Infinity,
       bounceHalves |-> 0, initialIndex |-> 0,
       debugTag |-> tag, PageComponent |-> TRUE, renderPage |-> FALSE]] :
    f \in {TwoTrees, Siblings},
    v \in {[p \in PagerNames |-> FALSE], [p \in PagerNames |-> p = "p1"]},
    tag \in BOOLEAN}

InitForest == InitLaidOut(ForestTrees)

SpecForest == InitForest /\ [][NextTree]_vars

\* ------------------------------------------------------ gesturesDisabled
\* a render with a new value v of the prop gesturesDisabled:
\* gesturesDisabledAnim follows and the recognizer gets .enabled(!v).
\* Whether the recognizer cancels a gesture in progress when it is disabled
\* (cancelled) is left to the gesture handler library; a cancelled gesture
\* still gets its onEnd, if it was active, and its onFinalize.
setGesturesDisabled(p, v, cancelled) ==
  /\ gesturesDisabled[p] # v
  /\ inputs < MaxInputs
  /\ inputs' = inputs + 1
  /\ gesturesDisabled' = [gesturesDisabled EXCEPT ![p] = v]
  /\ gState' = [gState EXCEPT ![p] =
                  IF v /\ cancelled /\ @ = "ACTIVE" THEN "FAILED_ACTIVE"
                  ELSE IF v /\ cancelled /\ @ = "BEGAN" THEN "FAILED"
                  ELSE @]
  /\ UNCHANGED <<cfg, pagers, activePagers, isGestureLocked, pageSize,
                 layoutPromise, awaiting, translate, spring, pageAnim,
                 reactionPrev, jsQueue, curIndex, startTranslate, initTouch>>

\* the trees of PagerTrees without a debugTag; the middle pager starts on
\* its last page, with and without bounce
GateTrees ==
  {[t EXCEPT !["p1"].bounceHalves = b, !["p1"].initialIndex = 2] :
     t \in {u \in PagerTrees : ~u["p1"].debugTag}, b \in {0, 1}}

InitGate == InitLaidOut(GateTrees)

SetGesturesDisabled ==
  \E p \in Mounted, v \in BOOLEAN, cancelled \in BOOLEAN :
    setGesturesDisabled(p, v, cancelled)

NextGate ==
  \/ SetGesturesDisabled
  \/ PageChange
  \/ Begin
  \/ TouchesMove
  \/ TreeUpdate
  \/ TreeEnd
  \/ Finalize
  \/ SpringRest

SpecGate == InitGate /\ [][NextGate]_vars

\* ------------------------------------------------------- mount / unmount
\* a render that never throws
throwsNever(p) == FALSE

\* PageWrapper: if (!PageComponent && !renderPage) throw new Error(...)
throws(p) == ~cfg[p].PageComponent /\ ~cfg[p].renderPage

\* PageWrapper: if (PageComponent && renderPage) console.warn(...)
warns(p) == cfg[p].PageComponent /\ cfg[p].renderPage

\* PageWrapper: {PageComponent ? <PageComponent .../> : renderPage?.(...)}
PageContent(p) ==
  IF cfg[p].PageComponent THEN "PageComponent" ELSE "renderPage"

\* a pager of the tree that has never been mounted
Pristine(p) ==
  /\ pagerId(p) \notin pagersOf(p)
  /\ layoutPromise[p] = Pending
  /\ awaiting[p] = <<>>

\* the first render and the mount effects of a pager inside its parent:
\* onMount() awaits the layout, the reaction runs for the first time and
\* the pager's id is added to pagers
mount(p) ==
  /\ Pristine(p)
  /\ ~throws(p)
  /\ \E q \in Mounted : cfg[q].nestingDepth = cfg[p].nestingDepth - 1
  /\ inputs < MaxInputs
  /\ inputs' = inputs + 1
  /\ pagers' = [pagers EXCEPT ![cfg[p].pagers] = @ \cup {pagerId(p)}]
  /\ awaiting' = [awaiting EXCEPT ![p] = <<[op |-> "onMount"]>>]
  /\ jsQueue' = [jsQueue EXCEPT ![p] = <<0>>]
  /\ isGestureLocked' =
       [isGestureLocked EXCEPT ![p] = LockedBy(p, activePagersOf(p))]
  /\ UNCHANGED <<cfg, gesturesDisabled, activePagers, pageSize, layoutPromise, translate,
                 spring, pageAnim, reactionPrev, curIndex, startTranslate,
                 initTouch, gState>>

\* the unmount of a pager with no pager mounted inside it: the cleanup of
\* the mount effect removes its id from pagers. The recognizer is dropped
\* with the view; whether the callbacks of a gesture in progress still run
\* (delivered) depends on the order in which the native cancellation and
\* the removal of the callbacks reach the UI thread.
unmount(p, delivered) ==
  /\ \A q \in Mounted : cfg[q].nestingDepth <= cfg[p].nestingDepth
  /\ inputs < MaxInputs
  /\ inputs' = inputs + 1
  /\ pagers' = [pagers EXCEPT ![cfg[p].pagers] = @ \ {pagerId(p)}]
  /\ gState' = [gState EXCEPT ![p] = "UNDETERMINED"]
  /\ IF delivered /\ gState[p] # "UNDETERMINED"
     THEN WriteActive(p, Without(activePagersOf(p), pagerId(p)))
     ELSE UNCHANGED <<activePagers, isGestureLocked>>
  /\ UNCHANGED <<cfg, gesturesDisabled, pageSize, layoutPromise, awaiting, translate, spring,
                 pageAnim, reactionPrev, jsQueue, curIndex, startTranslate,
                 initTouch>>

\* a tree with its innermost pager not mounted yet
InitUnmountedLeaf(trees) ==
  /\ cfg \in trees
  /\ pagers = [r \in Providers |->
                 {pagerId(p) : p \in {q \in PagerNames \ {"p2"} :
                                        cfg[q].pagers = r}}]
  /\ activePagers = [r \in Providers |-> <<>>]
  /\ isGestureLocked = [p \in PagerNames |-> FALSE]
  /\ pageSize = [p \in PagerNames |-> IF p = "p2" THEN 0 ELSE TreeLayoutSize]
  /\ layoutPromise =
       [p \in PagerNames |-> IF p = "p2" THEN Pending ELSE TreeLayoutSize]
  /\ awaiting = [p \in PagerNames |-> <<>>]
  /\ translate = [p \in PagerNames |->
                    IF p = "p2" THEN 0
                    ELSE OnMountBody(p, TreeLayoutSize, TreeLayoutSize)[1]]
  /\ spring = [p \in PagerNames |-> NoSpring]
  /\ pageAnim = [p \in PagerNames |->
                   IF p = "p2" THEN [num |-> 0, den |-> 1]
                   ELSE Quotient(Neg(translate[p]), TreeLayoutSize * Px)]
  /\ reactionPrev = [p \in PagerNames |-> Rounded(pageAnim[p])]
  /\ jsQueue = [p \in PagerNames |-> <<>>]
  /\ curIndex = [p \in PagerNames |-> reactionPrev[p]]
  /\ startTranslate = [p \in PagerNames |-> 0]
  /\ initTouch = [p \in PagerNames |-> [x |-> 0, y |-> 0]]
  /\ gState = [p \in PagerNames |-> "UNDETERMINED"]
  /\ gesturesDisabled = [p \in PagerNames |-> FALSE]
  /\ inputs = 0

\* the tree with its innermost pager not mounted yet
InitChurn == InitUnmountedLeaf(PagerTrees)

Mount == \E p \in PagerNames \ Mounted : mount(p)
Unmount == \E p \in Mounted, delivered \in BOOLEAN : unmount(p, delivered)
FirstLayout ==
  \E p \in Mounted : layoutPromise[p] = Pending /\ onLayout(p, TreeLayoutSize)

NextChurn ==
  \/ Mount
  \/ Unmount
  \/ FirstLayout
  \/ PageChange
  \/ Begin
  \/ TouchesMove
  \/ TreeUpdate
  \/ TreeEnd
  \/ Finalize
  \/ SpringRest

SpecChurn == InitChurn /\ [][NextChurn]_vars

\* ------------------------------------------------- render that throws
\* the first render of a pager whose PageWrapper throws: no error boundary
\* catches the error, so React unmounts the whole tree. The pager's effects
\* never run and its gesture handlers are never attached; of the pagers
\* that were mounted, those in delivered still get the onFinalize of their
\* gesture in progress (as in unmount).
mountThrows(p, delivered) ==
  /\ Pristine(p)
  /\ throws(p)
  /\ \E q \in Mounted : cfg[q].nestingDepth = cfg[p].nestingDepth - 1
  /\ inputs < MaxInputs
  /\ inputs' = inputs + 1
  /\ pagers' = [r \in Providers |-> {}]
  /\ gState' = [q \in PagerNames |-> "UNDETERMINED"]
  /\ activePagers' =
       [r \in Providers |->
          SelectSeq(activePagers[r],
                    LAMBDA v : \A q \in delivered : v # pagerId(q))]
  /\ isGestureLocked' =
       [q \in PagerNames |-> LockedBy(q, activePagers'[cfg[q].activePagers])]
  /\ UNCHANGED <<cfg, gesturesDisabled, pageSize, layoutPromise, awaiting, translate, spring,
                 pageAnim, reactionPrev, jsQueue, curIndex, startTranslate,
                 initTouch>>

\* the trees of PagerTrees without a debugTag, their innermost pager given
\* any combination of PageComponent and renderPage
RenderTrees ==
  {[t EXCEPT !["p2"].PageComponent = c[1], !["p2"].renderPage = c[2]] :
     t \in {u \in PagerTrees : ~u["p2"].debugTag},
     c \in BOOLEAN \X BOOLEAN}

InitRender == InitUnmountedLeaf(RenderTrees)

MountThrows ==
  \E p \in PagerNames \ Mounted,
     delivered \in SUBSET {q \in Mounted : gState[q] # "UNDETERMINED"} :
    mountThrows(p, delivered)

NextRender ==
  \/ Mount
  \/ MountThrows
  \/ Unmount
  \/ FirstLayout
  \/ PageChange
  \/ Begin
  \/ TouchesMove
  \/ TreeUpdate
  \/ TreeEnd
  \/ Finalize
  \/ SpringRest

SpecRender == InitRender /\ [][NextRender]_vars

\* ---------------------------------------------------------------- render
\* pageBuffer (default 1): the values of the prop the render is checked for
PageBuffers == 0..2

\* a === b of JavaScript: false when either side is NaN
StrictEq(a, b) == ~IsNaN(a) /\ ~IsNaN(b) /\ a = b

\* pageIndices: [...Array(pageBuffer * 2 + 1)].map((_, i) =>
\*   curIndex - (i - pageBuffer)), one PageWrapper per entry
pageIndices(p, pageBuffer) ==
  [i \in 1..(pageBuffer * 2 + 1) |->
     Plus(curIndex[p], -((i - 1) - pageBuffer))]

\* isActive={pageIndex === curIndex}
isActive(p, pageIndex) == StrictEq(pageIndex, curIndex[p])

\* focusAnim of the PageWrapper of index: index while the page has no
\* size, otherwise translation.value / pageSize.value for
\* translation = (index - pageAnim.value) * pageSize.value
focusAnim(p, index) ==
  IF pageSize[p] = 0 THEN [num |-> index, den |-> 1]
  ELSE LET pa == pageAnim[p]
           translation ==
             IF IsNaN(index) \/ IsNaN(pa.num) THEN NaN
             ELSE (index * pa.den - pa.num) * pageSize[p]
       IN  Quotient(translation, pa.den * pageSize[p])

\* animStyle: hasInitialized = !initIdx || !!translate.value (0 and NaN
\* are falsy)
hasInitialized(p) ==
  initIdx(p) = 0 \/ (translate[p] # 0 /\ ~IsNaN(translate[p]))

\* animStyle: opacity: hasInitialized ? withTiming(1, ...) : 0, the value
\* the opacity of the container goes to
opacity(p) == IF hasInitialized(p) THEN 1 ELSE 0

\* ================================================================ claims
\* k is a page of pager p: minIndex <= k <= maxIndex
InBounds(p, k) ==
  ~IsNaN(k) /\ cfg[p].minIndex <= k /\ k <= cfg[p].maxIndex

\* the translation at which pager p rests on page k, for the page size
RestAt(k, size) == -(k * size * Px)

\* no gesture between begin and finalize, no running spring; the first
\* layout has been processed and every page change has been delivered
Settled(p) ==
  /\ gState[p] = "UNDETERMINED"
  /\ ~spring[p].running
  /\ layoutPromise[p] # Pending
  /\ jsQueue[p] = <<>>

\* the pages the claims quantify over
Pages == -6..6

\* C1: at rest on a page curIndex of [minIndex, maxIndex],
\* translation == -curIndex * pageSize
C1_RestInvariant ==
  \A p \in Mounted :
    (Settled(p) /\ InBounds(p, curIndex[p]))
    => translate[p] = RestAt(curIndex[p], pageSize[p])

\* C2: a layout event that changes the page size (to another non-zero
\* value) at rest on page p keeps the pager on page p: curIndex unchanged,
\* no notification, translation == -p * newPageSize
C2_LayoutKeepsPage ==
  [][\A p \in Mounted :
       ( /\ Settled(p)
         /\ translate[p] = RestAt(curIndex[p], pageSize[p])
         /\ pageSize[p] # 0 /\ pageSize'[p] # 0
         /\ pageSize'[p] # pageSize[p] )
       => /\ curIndex'[p] = curIndex[p]
          /\ jsQueue'[p] = <<>>
          /\ translate'[p] = RestAt(curIndex[p], pageSize'[p])]_vars

\* C3: after the mount, the page last passed to the page-change callback
\* and the committed page lie in [minIndex, maxIndex]
C3_PageInBounds ==
  \A p \in Mounted :
    layoutPromise[p] # Pending =>
      /\ InBounds(p, reactionPrev[p])
      /\ (jsQueue[p] = <<>> => InBounds(p, curIndex[p]))

\* C4: every onEnd starts one spring whose target is -k * pageSize for
\* an integer page k with minIndex <= k <= maxIndex
C4_OneTargetPerGesture ==
  [][\A p \in Mounted :
       (gState[p] \in {"ACTIVE", "FAILED_ACTIVE"} /\ gState'[p] = "END")
       => /\ spring'[p].running
          /\ \E k \in Pages :
               /\ InBounds(p, k)
               /\ spring'[p].toValue = RestAt(k, pageSize[p])]_vars

\* an update that onUpdate does not skip, on a laid-out pager whose
\* gesture began inside the bounds
TrackedUpdate(p, evt) ==
  /\ pageSize[p] > 0
  /\ ~IsNaN(startTranslate[p])
  /\ PageInRange(p, startTranslate[p], pageSize[p])
  /\ ~isGestureLocked[p]
  /\ ~isSwipingCrossAxisUpdate(p, evt)
  /\ onUpdate(p, evt)

\* C5: with bouncePct = 0 no update moves translation past the rest
\* translation of minIndex or of maxIndex
C5_HardStop ==
  [][\A p \in Mounted, evt \in Events :
       (cfg[p].bounceHalves = 0 /\ TrackedUpdate(p, evt))
       => /\ (IsFinite(cfg[p].maxIndex) =>
                RestAt(cfg[p].maxIndex, pageSize[p]) <= translate'[p])
          /\ (IsFinite(cfg[p].minIndex) =>
                translate'[p] <= RestAt(cfg[p].minIndex, pageSize[p]))]_vars

\* C6: an update whose raw position is outside the bounds leaves
\* translation past the boundary by bouncePct times the raw overshoot
C6_BounceProportional ==
  [][\A p \in Mounted, evt \in Events :
       TrackedUpdate(p, evt) =>
         LET rawVal == startTranslate[p] + MainAxis(p, evt) * Px
             minRest == RestAt(cfg[p].minIndex, pageSize[p])
             maxRest == RestAt(cfg[p].maxIndex, pageSize[p])
         IN  /\ (IsFinite(cfg[p].minIndex) /\ rawVal > minRest =>
                   2 * (translate'[p] - minRest) =
                     cfg[p].bounceHalves * (rawVal - minRest))
             /\ (IsFinite(cfg[p].maxIndex) /\ rawVal < maxRest =>
                   2 * (translate'[p] - maxRest) =
                     cfg[p].bounceHalves * (rawVal - maxRest))]_vars

\* an unlocked, non-orthogonal end event faster than flingVelocity, on a
\* laid-out pager
FlingEnd(p, evt, vel) ==
  /\ pageSize[p] > 0
  /\ ~IsNaN(translate[p])
  /\ ~isGestureLocked[p]
  /\ Abs(CrossAxis(p, evt)) <= Abs(MainAxis(p, evt))
  /\ Abs(MainAxis(p, vel)) > flingVelocity
  /\ onEnd(p, evt, vel)

\* the nearest page within the bounds
Clamp(p, k) ==
  IF k < cfg[p].minIndex THEN cfg[p].minIndex
  ELSE IF k > cfg[p].maxIndex THEN cfg[p].maxIndex ELSE k

\* C7 as stated: pageSize = 300, translation = -50, velocity = 600 ends
\* on page 1
C7_FlingAsStated ==
  [][\A p \in Mounted, evt \in EndEvents, vel \in VelocityEvents :
       ( /\ FlingEnd(p, evt, vel)
         /\ pageSize[p] = 300 /\ translate[p] = -50 * Px
         /\ MainAxis(p, vel) = 600 )
       => spring'[p].toValue = RestAt(1, 300)]_vars

\* C7 amended: a fling from a translation strictly between the pages k
\* and k + 1 ends on k + 1 when the velocity is negative and on k when it
\* is positive (clamped to the bounds); with pageSize = 300 and
\* translation = -50, velocity = -600 ends on page 1 and velocity = 600 on
\* page 0
C7_FlingDecision ==
  [][\A p \in Mounted, evt \in EndEvents, vel \in VelocityEvents :
       FlingEnd(p, evt, vel) =>
         /\ \A k \in Pages :
              ( /\ RestAt(k + 1, pageSize[p]) < translate[p]
                /\ translate[p] < RestAt(k, pageSize[p]) )
              => spring'[p].toValue =
                   RestAt(Clamp(p, IF MainAxis(p, vel) < 0 THEN k + 1 ELSE k),
                          pageSize[p])
         /\ ( pageSize[p] = 300 /\ translate[p] = -50 * Px
              /\ cfg[p].maxIndex >= 1 /\ cfg[p].minIndex <= 0 )
            => spring'[p].toValue =
                 RestAt(IF MainAxis(p, vel) = -600 THEN 1 ELSE 0, 300)]_vars

\* a fling has taken a pager dragged 1/6 of a page on to page 1
C7_Witness ==
  \E p \in Mounted :
    /\ gState[p] = "END" /\ pageSize[p] = 300
    /\ translate[p] = -50 * Px
    /\ spring[p] = SpringTo(RestAt(1, 300))

\* some active pager has the orientation of p and is nested deeper
DeeperActive(p) ==
  \E i \in 1..Len(activePagersOf(p)) :
    /\ activePagersOf(p)[i][1] = orientation(p)
    /\ activePagersOf(p)[i][2] > cfg[p].nestingDepth

\* C8: a pager is locked iff activePagers holds the id of a deeper pager
\* of its orientation, and the lock changes only when activePagers does
C8_LockRule ==
  /\ [](\A p \in Mounted : isGestureLocked[p] <=> DeeperActive(p))
  /\ [][activePagers' = activePagers
          => isGestureLocked' = isGestureLocked]_vars

\* the root is locked by its registered child of the same orientation
C8_Witness ==
  /\ isGestureLocked["p0"]
  /\ ~cfg["p1"].vertical
  /\ Includes(activePagersOf("p1"), pagerId("p1"))

\* the gesture of p is between its begin and its end, not failed
Touched(p) == gState[p] \in {"BEGAN", "ACTIVE"}

\* C9: with the depth-0 and the depth-1 pager of one orientation both
\* touched (the inner one not pinned at a boundary), no onUpdate of the
\* depth-0 pager changes its translation
C9_OnlyInnerTracks ==
  [][\A outer \in Mounted, inner \in Mounted, evt \in TreeEvents :
       ( /\ cfg[outer].nestingDepth = 0 /\ cfg[inner].nestingDepth = 1
         /\ orientation(outer) = orientation(inner)
         /\ Touched(outer) /\ Touched(inner)
         /\ Includes(activePagersOf(outer), pagerId(outer))
         /\ ~isMinIndex(inner) /\ ~isMaxIndex(inner)
         /\ onUpdate(outer, evt) )
       => translate'[outer] = translate[outer]]_vars

\* the displacement of an event along the axis of pager p
OwnAxis(p, evt) == IF orientation(p) = "vertical" THEN evt.y ELSE evt.x

\* some active pager of the other orientation is nested deeper than p
DeeperOtherActive(p) ==
  \E i \in 1..Len(activePagersOf(p)) :
    /\ activePagersOf(p)[i][1] # orientation(p)
    /\ activePagersOf(p)[i][2] > cfg[p].nestingDepth

\* C10: active pagers of the other orientation never lock a pager, and
\* while they are active the pager's onUpdate tracks its own axis
C10_OrientationIndependence ==
  /\ [](\A p \in Mounted : ~DeeperActive(p) => ~isGestureLocked[p])
  /\ [][\A p \in Mounted, evt \in TreeEvents :
          ( /\ DeeperOtherActive(p) /\ ~DeeperActive(p)
            /\ OwnAxis(p, evt) # 0
            /\ PageInRange(p, startTranslate[p] + OwnAxis(p, evt) * Px,
                           pageSize[p])
            /\ onUpdate(p, evt) )
          => translate'[p] = startTranslate[p] + OwnAxis(p, evt) * Px]_vars

\* a pager has tracked a drag while a deeper pager of the other
\* orientation was active
C10_Witness ==
  \E p \in Mounted :
    /\ DeeperOtherActive(p)
    /\ ~isGestureLocked[p]
    /\ gState[p] = "ACTIVE"
    /\ translate[p] = startTranslate[p] - 50 * Px

\* the page carried by the latest page-change notification of pager p:
\* the last one queued or, when all have run, the one committed
LastNotified(p) ==
  IF jsQueue[p] # <<>> THEN jsQueue[p][Len(jsQueue[p])] ELSE curIndex[p]

\* C11: a notification is queued only when the rounded projection differs
\* from its value at the previous evaluation, and then exactly one, carrying
\* the new value; the latest notification always carries the value of the
\* previous evaluation, so two consecutive notifications differ
C11_EdgeTriggered ==
  /\ [](\A p \in Mounted :
          /\ reactionPrev[p] = Rounded(pageAnim[p])
          /\ LastNotified(p) = reactionPrev[p])
  /\ [][\A p \in Mounted :
          LET cur == Rounded(pageAnim'[p])
          IN  IF cur # reactionPrev[p]
              THEN jsQueue'[p] = Append(jsQueue[p], cur)
              ELSE \/ jsQueue'[p] = jsQueue[p]
                   \/ /\ jsQueue[p] # <<>>
                      /\ jsQueue'[p] = Tail(jsQueue[p])]_vars

\* a laid-out pager with no gesture between begin and finalize
LaidOutIdle(p) ==
  /\ layoutPromise[p] # Pending
  /\ pageSize[p] > 0
  /\ gState[p] = "UNDETERMINED"

\* C12: on a laid-out pager with no active gesture, setPage(index) with
\* index in range puts translation at -index * pageSize at once, or starts
\* a spring to that value which a frame brings to rest there; with
\* translation at rest there, the notification of index is queued or
\* committed, and a queued notification can always run
C12_SetPageReaches ==
  /\ [][\A p \in Mounted, index \in SetPageIndices, animated \in BOOLEAN :
          (LaidOutIdle(p) /\ InBounds(p, index) /\ setPage(p, index, animated))
          => IF animated
             THEN /\ spring'[p] = SpringTo(RestAt(index, pageSize[p]))
                  /\ translate'[p] = translate[p]
             ELSE /\ translate'[p] = RestAt(index, pageSize[p])
                  /\ ~spring'[p].running]_vars
  /\ [][\A p \in Mounted :
          springRest(p)
          => translate'[p] = spring[p].toValue /\ ~spring'[p].running]_vars
  /\ [](\A p \in Mounted :
          /\ \A k \in Pages :
               ( /\ pageSize[p] > 0 /\ ~spring[p].running
                 /\ translate[p] = RestAt(k, pageSize[p]) )
               => LastNotified(p) = k
          /\ jsQueue[p] # <<>> => ENABLED onPageChangeInternal(p)
          /\ ( /\ spring[p].running /\ ~IsNaN(translate[p])
               /\ ~IsNaN(spring[p].toValue) )
             => ENABLED (springRest(p) \/ onPageChangeInternal(p)))

\* after the first layout and one setPage(3), the pager is at rest on
\* page 3
C12_Witness ==
  \E p \in Mounted :
    /\ inputs = 2
    /\ cfg[p].initialIndex = 0
    /\ Settled(p)
    /\ curIndex[p] = 3
    /\ translate[p] = RestAt(3, pageSize[p])

\* an imperative call has left pager p as it was
Untouched(p) ==
  /\ translate'[p] = translate[p]
  /\ spring'[p] = spring[p]
  /\ curIndex'[p] = curIndex[p]
  /\ jsQueue'[p] = jsQueue[p]
  /\ pageAnim'[p] = pageAnim[p]

\* every setPage call waiting for the first layout is out of range
OnlyOutOfRangeAwaiting(p) ==
  /\ \E i \in 1..Len(awaiting[p]) : awaiting[p][i].op = "setPage"
  /\ \A i \in 1..Len(awaiting[p]) :
       awaiting[p][i].op = "setPage" => ~InBounds(p, awaiting[p][i].index)

\* C13: setPage(index) with index outside [minIndex, maxIndex],
\* incrementPage at curIndex == maxIndex and decrementPage at
\* curIndex == minIndex leave translation, the spring, curIndex and the
\* queue of notifications unchanged; called before the first layout they
\* add nothing to what the layout does
C13_OutOfRangeNoOp ==
  /\ [][\A p \in Mounted, animated \in BOOLEAN :
          /\ \A index \in SetPageIndices :
               (~InBounds(p, index) /\ setPage(p, index, animated))
               => Untouched(p)
          /\ (curIndex[p] = cfg[p].maxIndex /\ incrementPage(p, animated))
             => Untouched(p)
          /\ (curIndex[p] = cfg[p].minIndex /\ decrementPage(p, animated))
             => Untouched(p)]_vars
  /\ [][\A p \in Mounted, size \in LayoutSizes :
          (OnlyOutOfRangeAwaiting(p) /\ onLayout(p, size))
          => /\ translate'[p] = OnMountBody(p, size, size)[1]
             /\ ~spring'[p].running
             /\ curIndex'[p] = curIndex[p]]_vars

\* a pager mounted on the page before its last one is at rest on the last
\* page after its first layout and two more inputs (incrementPage twice)
C13_Witness ==
  \E p \in Mounted :
    /\ inputs = 3
    /\ Settled(p)
    /\ cfg[p].initialIndex = cfg[p].maxIndex - 1
    /\ curIndex[p] = cfg[p].maxIndex
    /\ translate[p] = RestAt(cfg[p].maxIndex, pageSize[p])

\* pager p, laid out, is exactly on its committed page, no spring running
OnCommittedPage(p) ==
  /\ layoutPromise[p] # Pending
  /\ pageSize[p] > 0
  /\ InBounds(p, curIndex[p])
  /\ ~spring[p].running
  /\ translate[p] = RestAt(curIndex[p], pageSize[p])

\* C14 as stated: in every state of a laid-out pager (page size as first
\* laid out), setPage(curIndex) queues no notification and leaves
\* translation where it is
C14_IdempotentAsStated ==
  [][\A p \in Mounted, animated \in BOOLEAN :
       ( /\ layoutPromise[p] # Pending
         /\ pageSize[p] = layoutPromise[p]
         /\ ~IsNaN(translate[p])
         /\ InBounds(p, curIndex[p])
         /\ setPage(p, curIndex[p], animated) )
       => /\ jsQueue'[p] = jsQueue[p]
          /\ translate'[p] = translate[p]]_vars

\* C14 amended: setPage(curIndex) on a pager that is exactly on its
\* committed page queues no notification and leaves translation and
\* curIndex unchanged; in any other state of a laid-out pager the call
\* without animation moves translation to -curIndex * pageSize at once
C14_Idempotent ==
  [][\A p \in Mounted, animated \in BOOLEAN :
       /\ (OnCommittedPage(p) /\ setPage(p, curIndex[p], animated))
          => /\ jsQueue'[p] = jsQueue[p]
             /\ translate'[p] = translate[p]
             /\ curIndex'[p] = curIndex[p]
       /\ ( /\ layoutPromise[p] # Pending /\ pageSize[p] > 0
            /\ InBounds(p, curIndex[p])
            /\ setPage(p, curIndex[p], FALSE) )
          => translate'[p] = RestAt(curIndex[p], pageSize[p])]_vars

\* a pager mounted on page 1 is at rest there after its first layout and
\* one more input (setPage(1))
C14_Witness ==
  \E p \in Mounted :
    /\ inputs = 2
    /\ cfg[p].initialIndex = 1
    /\ OnCommittedPage(p)
    /\ jsQueue[p] = <<>>
    /\ curIndex[p] = 1
    /\ spring[p] = NoSpring

\* the state a call of incrementPage() without animation leaves a pager
\* settled on page k in: translation on page k + 1, no spring, and either
\* the commit of k + 1 still queued or already delivered
AfterIncrement(p, k, delivered) ==
  /\ LaidOutIdle(p)
  /\ inputs >= 2
  /\ InBounds(p, k) /\ InBounds(p, k + 1)
  /\ ~spring[p].running
  /\ translate[p] = RestAt(k + 1, pageSize[p])
  /\ IF delivered
     THEN curIndex[p] = k + 1 /\ jsQueue[p] = <<>>
     ELSE curIndex[p] = k /\ jsQueue[p] = <<k + 1>>

\* C15: decrementPage() called after incrementPage() from a pager settled
\* on page k brings translation back to -k * pageSize and the page
\* notified last back to k, whether or not the commit of k + 1 has been
\* delivered before the call
C15_RoundTrip ==
  [][\A p \in Mounted, k \in Pages, delivered \in BOOLEAN :
       (AfterIncrement(p, k, delivered) /\ decrementPage(p, FALSE))
       => /\ translate'[p] = RestAt(k, pageSize[p])
          /\ jsQueue'[p] # <<>>
          /\ jsQueue'[p][Len(jsQueue'[p])] = k]_vars

\* C16: onFinalize leaves the pager out of activePagers, a pager with no
\* gesture in progress is not in activePagers, and the gesture of every
\* registered pager can go on to its finalize: onFinalize can run after
\* the begin, a failure or the end, and onEnd can run while it is active
C16_Cleanup ==
  /\ [][\A p \in Mounted :
          onFinalize(p) => ~Includes(activePagersOf(p)', pagerId(p))]_vars
  /\ [](\A p \in Mounted :
          Includes(activePagersOf(p), pagerId(p)) =>
            /\ gState[p] # "UNDETERMINED"
            /\ gState[p] \in {"BEGAN", "FAILED", "END"}
               => ENABLED onFinalize(p)
            /\ gState[p] \in {"ACTIVE", "FAILED_ACTIVE"}
               => ENABLED onEnd(p, [x |-> 0, y |-> 0], [x |-> 0, y |-> 0]))

\* a gesture that moved its pager has ended and been finalized, and the
\* pager is no longer registered
C16_Witness ==
  \E p \in Mounted :
    /\ gState[p] = "UNDETERMINED"
    /\ spring[p].running
    /\ translate[p] = startTranslate[p] - 50 * Px
    /\ ~Includes(activePagersOf(p), pagerId(p))
    /\ activePagersOf(p) # <<>>

\* C17: every member of activePagers is the id of a mounted pager whose
\* gesture is between its begin and its finalize; with no gesture in
\* progress activePagers is empty
C17_NoStaleRegistration ==
  /\ \A r \in Providers :
       \A i \in 1..Len(activePagers[r]) :
         \E p \in Mounted :
           /\ cfg[p].activePagers = r
           /\ pagerId(p) = activePagers[r][i]
           /\ gState[p] # "UNDETERMINED"
  /\ (\A p \in Mounted : gState[p] = "UNDETERMINED")
       => \A r \in Providers : activePagers[r] = <<>>

\* some active pager that is still mounted has the orientation of p and
\* is nested deeper
DeeperMountedActive(p) ==
  \E i \in 1..Len(activePagersOf(p)) :
    /\ activePagersOf(p)[i] \in pagersOf(p)
    /\ activePagersOf(p)[i][1] = orientation(p)
    /\ activePagersOf(p)[i][2] > cfg[p].nestingDepth

\* C18: the unmount of a pager leaves its id neither in pagers nor in
\* activePagers, and a mounted pager is locked only by a pager that is
\* still mounted
C18_UnmountDeregisters ==
  /\ [](\A p \in Mounted : isGestureLocked[p] => DeeperMountedActive(p))
  /\ [][\A p \in PagerNames :
          (pagerId(p) \in pagersOf(p) /\ pagerId(p) \notin pagersOf(p)')
          => ~Includes(activePagersOf(p)', pagerId(p))]_vars

\* C19: after a mount or an unmount during a gesture no pager is locked by
\* a registration made before it
C19_ReArm ==
  [][(pagers' # pagers /\ \E r \in Providers : activePagers[r] # <<>>)
       => \A q \in PagerNames :
            pagerId(q) \in pagers'[cfg[q].pagers]
              => ~isGestureLocked'[q]]_vars

\* C20: after the mount and the first layout, with no other input and the
\* page changes delivered, the pager rests on initialIndex, or on the
\* nearest bound when initialIndex is outside [minIndex, maxIndex]
C20_InitialPage ==
  \A p \in Mounted :
    (inputs = 1 /\ layoutPromise[p] # Pending /\ jsQueue[p] = <<>>)
    => /\ curIndex[p] = Clamp(p, cfg[p].initialIndex)
       /\ translate[p] = RestAt(Clamp(p, cfg[p].initialIndex), pageSize[p])
       /\ ~spring[p].running

\* C21: the rendered indices are exactly curIndex - pageBuffer ..
\* curIndex + pageBuffer: 2 * pageBuffer + 1 distinct indices, curIndex
\* among them, and exactly one slot, the one of curIndex, is active
C21_PageWindow ==
  \A p \in Mounted, pageBuffer \in PageBuffers :
    LET slots == pageIndices(p, pageBuffer)
        rendered == {slots[i] : i \in DOMAIN slots}
        active == {i \in DOMAIN slots : isActive(p, slots[i])}
    IN  /\ Len(slots) = 2 * pageBuffer + 1
        /\ rendered = {Plus(curIndex[p], k) : k \in -pageBuffer..pageBuffer}
        /\ Cardinality(rendered) = 2 * pageBuffer + 1
        /\ curIndex[p] \in rendered
        /\ Cardinality(active) = 1
        /\ \A i \in active : slots[i] = curIndex[p]

\* C22: while pageSize == 0 onUpdate and onEnd leave translation as it is,
\* and translation, the spring target, the page projection and curIndex
\* never hold NaN or an infinite value
C22_ZeroSizeGuard ==
  /\ [](\A p \in Mounted :
          /\ IsFinite(translate[p])
          /\ IsFinite(spring[p].toValue)
          /\ IsFinite(pageAnim[p].num)
          /\ IsFinite(curIndex[p]))
  /\ [][\A p \in Mounted :
          pageSize[p] = 0 =>
            /\ \A evt \in Events :
                 onUpdate(p, evt) =>
                   translate'[p] = translate[p] /\ spring'[p] = spring[p]
            /\ \A evt \in EndEvents, vel \in VelocityEvents :
                 onEnd(p, evt, vel) =>
                   translate'[p] = translate[p] /\ spring'[p] = spring[p]]_vars

\* the fraction pa is -t / size, for a translation t in fixed point
IsProjectionOf(pa, t, size) ==
  IF IsNaN(t) THEN IsNaN(pa.num)
  ELSE ~IsNaN(pa.num) /\ pa.num * size * Px = -t * pa.den

\* the fraction f is i - pa
IsFocusOf(f, i, pa) ==
  IF IsNaN(i) \/ IsNaN(pa.num) THEN IsNaN(f.num)
  ELSE ~IsNaN(f.num) /\ f.num * pa.den = (i * pa.den - pa.num) * f.den

\* C23: with pageSize > 0 the projection is -translation / pageSize and the
\* focus of the slot of index i is i - projection; a step that leaves
\* pageSize == 0 leaves the projection as it was, and the focus of a slot
\* is then its index
C23_Projection ==
  /\ [](\A p \in Mounted :
          /\ pageSize[p] > 0 =>
               IsProjectionOf(pageAnim[p], translate[p], pageSize[p])
          /\ \A pageBuffer \in PageBuffers :
               LET slots == pageIndices(p, pageBuffer)
               IN  \A k \in DOMAIN slots :
                     IF pageSize[p] > 0
                     THEN IsFocusOf(focusAnim(p, slots[k]), slots[k],
                                    pageAnim[p])
                     ELSE focusAnim(p, slots[k]) = [num |-> slots[k], den |-> 1])
  /\ [][\A p \in Mounted :
          pageSize'[p] = 0 => pageAnim'[p] = pageAnim[p]]_vars

\* a laid-out pager in the middle of a drag, between two pages
C23_Witness ==
  \E p \in Mounted :
    /\ pageSize[p] > 0
    /\ gState[p] = "ACTIVE"
    /\ IsFinite(translate[p])
    /\ pageAnim[p].den > 1

\* C24: a pager given neither PageComponent nor renderPage throws at its
\* first render: it is never mounted and never has a gesture; a pager given
\* both is mounted, warns, and renders its pages with PageComponent
C24_ConfigurationErrors ==
  \A p \in PagerNames :
    /\ (~cfg[p].PageComponent /\ ~cfg[p].renderPage) =>
         p \notin Mounted /\ gState[p] = "UNDETERMINED"
    /\ (p \in Mounted /\ cfg[p].PageComponent /\ cfg[p].renderPage) =>
         warns(p) /\ ~throws(p) /\ PageContent(p) = "PageComponent"

\* a pager given both props, mounted and tracking a gesture
C24_Witness ==
  \E p \in Mounted :
    /\ cfg[p].PageComponent /\ cfg[p].renderPage
    /\ gState[p] = "ACTIVE"

\* pager p is pinned at a boundary: bounce is disabled and curIndex is not
\* strictly inside [minIndex, maxIndex]
Pinned(p) ==
  /\ cfg[p].bounceHalves = 0
  /\ ~(Lt(cfg[p].minIndex, curIndex[p]) /\ Lt(curIndex[p], cfg[p].maxIndex))

\* C25: after onBegin on a pager that is not pinned at a boundary the
\* pager's id is in activePagers
C25_RegistrationAtBegin ==
  [][\A p \in Mounted, evt \in InitTouchEvents :
       (onBegin(p, evt) /\ ~Pinned(p)) =>
         Includes(activePagersOf(p)', pagerId(p))]_vars

\* the displacement of a touch goes past the end the pager is on: toward
\* lower indices (the finger moves forward along the axis) on a page
\* <= minIndex, or toward higher indices on a page >= maxIndex
PastEnd(p, evt) ==
  LET displacement == MainAxis(p, evt) - MainAxis(p, initTouch[p])
  IN  \/ (Le(curIndex[p], cfg[p].minIndex) /\ displacement > 0)
      \/ (Le(cfg[p].maxIndex, curIndex[p]) /\ displacement < 0)

\* the condition under which onTouchesMove is to fail the gesture
MustFail(p, evt) ==
  \/ (cfg[p].bounceHalves = 0 /\ PastEnd(p, evt))
  \/ LockedBy(p, activePagersOf(p))
  \/ gesturesDisabled[p]

\* C26: onTouchesMove fails the gesture exactly when bounce is disabled and
\* the touch goes past the end, or the pager is locked, or gestures are
\* disabled; otherwise the gesture goes on and the pager is registered.
\* While gestures are disabled no gesture begins on the pager, so no touch
\* sequence begun then changes translation
C26_SelfFail ==
  [][\A p \in Mounted :
       /\ \A evt \in TouchEvents :
            onTouchesMove(p, evt) =>
              IF MustFail(p, evt)
              THEN gState'[p] \in {"FAILED", "FAILED_ACTIVE"}
              ELSE /\ gState'[p] = gState[p]
                   /\ Includes(activePagersOf(p)', pagerId(p))
       /\ (gesturesDisabled[p] /\ gState[p] = "UNDETERMINED") =>
            /\ gState'[p] = "UNDETERMINED"
            /\ translate'[p] = translate[p] \/ spring[p].running]_vars

\* a pager whose gesture was failed by onTouchesMove because gestures were
\* disabled while it was in progress
C26_Witness ==
  \E p \in Mounted :
    /\ gesturesDisabled[p]
    /\ gState[p] \in {"FAILED", "FAILED_ACTIVE"}
    /\ ~LockedBy(p, activePagersOf(p))
    /\ \A evt \in TouchEvents : ~PastEnd(p, evt)

\* C27: when onTouchesMove fails the gesture, the pager's id is not in
\* activePagers when the callback returns
C27_DeregisterOnFail ==
  [][\A p \in Mounted, evt \in TouchEvents :
       (onTouchesMove(p, evt) /\ gState'[p] \in {"FAILED", "FAILED_ACTIVE"})
         => ~Includes(activePagersOf(p)', pagerId(p))]_vars

\* pager p is on a boundary page with bounce disabled
PinnedAtBoundary(p) ==
  /\ cfg[p].bounceHalves = 0
  /\ Le(curIndex[p], cfg[p].minIndex) \/ Le(cfg[p].maxIndex, curIndex[p])

\* the step adds the id of pager p to activePagers
Registers(p) ==
  /\ ~Includes(activePagersOf(p), pagerId(p))
  /\ Includes(activePagersOf(p)', pagerId(p))

\* C28 as stated: no onBegin and no onTouchesMove adds a pager pinned at a
\* boundary to activePagers, whatever the direction of the displacement
C28_NoRegistrationWhilePinned ==
  [][\A p \in Mounted :
       PinnedAtBoundary(p) =>
         /\ \A evt \in InitTouchEvents : onBegin(p, evt) => ~Registers(p)
         /\ \A evt \in TouchEvents : onTouchesMove(p, evt) => ~Registers(p)]_vars

\* C28: no onBegin adds a pager pinned at a boundary to activePagers, and
\* no onTouchesMove whose displacement goes past the end the pager is on;
\* an onTouchesMove with any other displacement registers the pager, unless
\* it is locked or its gestures are disabled
C28_NoRegistrationPastEnd ==
  [][\A p \in Mounted :
       PinnedAtBoundary(p) =>
         /\ \A evt \in InitTouchEvents : onBegin(p, evt) => ~Registers(p)
         /\ \A evt \in TouchEvents :
              onTouchesMove(p, evt) =>
                IF PastEnd(p, evt) THEN ~Registers(p)
                ELSE (~LockedBy(p, activePagersOf(p)) /\ ~gesturesDisabled[p])
                       => Includes(activePagersOf(p)', pagerId(p))]_vars

\* a pager pinned at a boundary that a touch toward the inside registered
C28_Witness ==
  \E p \in Mounted :
    /\ PinnedAtBoundary(p)
    /\ IsFinite(cfg[p].maxIndex)
    /\ gState[p] = "BEGAN"
    /\ Includes(activePagersOf(p), pagerId(p))

\* an update that is to be skipped: the pager is locked, or the cross-axis
\* displacement exceeds both 10 px and the primary-axis displacement
SkippedUpdate(p, evt) ==
  \/ LockedBy(p, activePagersOf(p))
  \/ /\ Abs(CrossAxis(p, evt)) > 10
     /\ Abs(CrossAxis(p, evt)) > Abs(MainAxis(p, evt))

\* an end that is not a fling: the pager is locked, or the cross-axis
\* displacement exceeds the primary-axis one, or the velocity is within
\* the threshold
NoFling(p, evt, vel) ==
  \/ LockedBy(p, activePagersOf(p))
  \/ Abs(CrossAxis(p, evt)) > Abs(MainAxis(p, evt))
  \/ Abs(MainAxis(p, vel)) <= flingVelocity

\* the gesture of pager p began at rest on page curIndex and no update has
\* moved the pager since
StillAtRest(p) ==
  /\ ~spring[p].running
  /\ jsQueue[p] = <<>>
  /\ translate[p] = startTranslate[p]
  /\ ~IsNaN(curIndex[p])
  /\ translate[p] = RestAt(curIndex[p], pageSize[p])

\* C29: a skipped onUpdate leaves translation, the spring and curIndex
\* unchanged, and the end without fling of a gesture that has not moved a
\* pager at rest on a page sends it to the rest translation of that page
C29_SkippedUpdates ==
  [][\A p \in Mounted :
       /\ \A evt \in Events :
            (onUpdate(p, evt) /\ SkippedUpdate(p, evt)) =>
              /\ translate'[p] = translate[p]
              /\ spring'[p] = spring[p]
              /\ curIndex'[p] = curIndex[p]
       /\ \A evt \in EndEvents, vel \in VelocityEvents :
            (onEnd(p, evt, vel) /\ NoFling(p, evt, vel) /\ StillAtRest(p)) =>
              /\ translate'[p] = translate[p]
              /\ curIndex'[p] = curIndex[p]
              /\ spring'[p] =
                   SpringTo(RestAt(curIndex[p], pageSize[p]))]_vars

\* page k is a nearest page of the translation of pager p:
\* |-translation / pageSize - k| <= 1/2
NearestPage(p, k) ==
  2 * Abs(-translate[p] - k * pageSize[p] * Px) <= pageSize[p] * Px

Quiet(p) ==
  /\ p \in Mounted
  /\ gState[p] = "UNDETERMINED"
  /\ inputs = MaxInputs

C32_DeferredNotifications ==
  /\ [](\A p \in Mounted :
          jsQueue[p] = <<>> => curIndex[p] = Rounded(pageAnim[p]))
  /\ [][\A p \in Mounted :
          /\ \/ jsQueue'[p] = jsQueue[p]
             \/ jsQueue'[p] = Append(jsQueue[p], Rounded(pageAnim'[p]))
             \/ jsQueue[p] # <<>> /\ jsQueue'[p] = Tail(jsQueue[p])
          /\ IF jsQueue[p] # <<>> /\ jsQueue'[p] = Tail(jsQueue[p])
             THEN curIndex'[p] = Head(jsQueue[p])
             ELSE curIndex'[p] = curIndex[p]]_vars

\* two page changes wait for delivery while the gesture goes on
C32_Witness ==
  \E p \in Mounted :
    /\ gState[p] = "ACTIVE"
    /\ Len(jsQueue[p]) = 2
    /\ jsQueue[p][1] # jsQueue[p][2]
    /\ curIndex[p] # jsQueue[p][1]

\* the root of the tree of pager p
RECURSIVE Root(_)
Root(p) == IF cfg[p].parent = NoParent THEN p ELSE Root(cfg[p].parent)

\* pager p is in the activePagers it got from the context
Registered(p) == Includes(activePagersOf(p), pagerId(p))

\* C33: the pagers of one tree share the activePagers and pagers created
\* by the provider of the tree's root, whose depth is 0, and the depth of a
\* nested pager is its parent's depth plus one; pagers of different trees
\* share neither, each activePagers holds only ids of pagers of its own
\* tree, and the lock of a pager changes only in a step that changes the
\* registration of a pager of its own tree
C33_OneRegistryPerRoot ==
  /\ [](\A p \in Mounted :
          /\ IF cfg[p].parent = NoParent
             THEN /\ cfg[p].nestingDepth = 0
                  /\ cfg[p].activePagers = p
                  /\ cfg[p].pagers = p
             ELSE /\ cfg[p].nestingDepth = cfg[cfg[p].parent].nestingDepth + 1
                  /\ cfg[p].activePagers = cfg[cfg[p].parent].activePagers
                  /\ cfg[p].pagers = cfg[cfg[p].parent].pagers
          /\ \A q \in Mounted :
               Root(p) # Root(q) =>
                 /\ cfg[p].activePagers # cfg[q].activePagers
                 /\ cfg[p].pagers # cfg[q].pagers
                 /\ ~Includes(activePagersOf(q), pagerId(p))
                 /\ pagerId(p) \notin pagersOf(q))
  /\ [][\A q \in Mounted :
          isGestureLocked'[q] # isGestureLocked[q] =>
            \E p \in Mounted :
              Root(p) = Root(q) /\ Registered(p)' # Registered(p)]_vars

\* with the child of one root registered and that root locked, the root of
\* the other tree tracks its own gesture, unlocked
C33_Witness ==
  /\ Root("p2") # Root("p1")
  /\ orientation("p2") = orientation("p1")
  /\ Registered("p1") /\ isGestureLocked["p0"]
  /\ Registered("p2") /\ ~isGestureLocked["p2"]
  /\ gState["p2"] = "ACTIVE"
  /\ translate["p2"] # startTranslate["p2"]
\* the setPage calls of pager p that await the first layout with an index
\* in range, in the order of the calls
DeferredInRange(p) ==
  SelectSeq(awaiting[p],
            LAMBDA c : c.op = "setPage" /\ InBounds(p, c.index))

OthersKept(p) ==
  /\ \A q \in Mounted \ {p} : Registered(q)' = Registered(q)
  /\ \A r \in Providers :
       Without(activePagers'[r], pagerId(p))
         = Without(activePagers[r], pagerId(p))

\* C35: onBegin, onTouchesMove and onFinalize of a pager change the
\* registration of no other pager, siblings of the same orientation and
\* depth included
C35_OwnIdOnly ==
  [][\A p \in Mounted :
       ( \/ \E evt \in InitTouchEvents : onBegin(p, evt)
         \/ \E evt \in TouchEvents : onTouchesMove(p, evt)
         \/ onFinalize(p) )
       => OthersKept(p)]_vars

\* two siblings of the same orientation and depth: the gesture of one has
\* ended and finalized, the other is still registered and tracking
C35_Witness ==
  \E p \in Mounted, q \in Mounted :
    /\ p # q
    /\ cfg[p].parent = cfg[q].parent
    /\ orientation(p) = orientation(q)
    /\ cfg[p].nestingDepth = cfg[q].nestingDepth
    /\ gState[p] = "UNDETERMINED" /\ spring[p].running
    /\ ~Registered(p)
    /\ gState[q] = "ACTIVE" /\ Registered(q)
\* C36: a second incrementPage() called after a first one from a pager
\* settled on page k, with k + 2 in range, puts translation at
\* -(k + 2) * pageSize and makes k + 2 the page notified last, whether or
\* not the commit of k + 1 has been delivered before the call
C36_SuccessiveIncrements ==
  [][\A p \in Mounted, k \in Pages, delivered \in BOOLEAN :
       ( /\ AfterIncrement(p, k, delivered)
         /\ InBounds(p, k + 2)
         /\ incrementPage(p, FALSE) )
       => /\ translate'[p] = RestAt(k + 2, pageSize[p])
          /\ LastNotified(p)' = k + 2]_vars
\* C37: a mounted pager that has had no layout, call or gesture has no
\* page-change notification queued, and its first layout, coming before
\* anything else, queues no notification when initIdx is 0 and exactly
\* one, carrying initIdx, otherwise
C37_MountNotifiesNothing ==
  /\ [](\A p \in Mounted : inputs = 0 => jsQueue[p] = <<>>)
  /\ [][\A p \in Mounted, size \in LayoutSizes :
          (inputs = 0 /\ onLayout(p, size))
          => jsQueue'[p] = IF initIdx(p) = 0 THEN <<>>
                           ELSE <<initIdx(p)>>]_vars
\* the fling that ends the step found pager p, dragged from rest on page
\* k strictly inside the bounds, with a net drag of d units of
\* translation, not against the velocity
FlingFromRest(p, k, d, evt, vel) ==
  /\ FlingEnd(p, evt, vel)
  /\ cfg[p].minIndex < k /\ k < cfg[p].maxIndex
  /\ startTranslate[p] = RestAt(k, pageSize[p])
  /\ translate[p] =
       startTranslate[p] + (IF MainAxis(p, vel) > 0 THEN d ELSE -d)

\* C38: a fling from rest on page k with a net drag of less than half a
\* page in the direction of the velocity, no drag at all included, goes
\* to page k - 1 for a positive velocity and to page k + 1 for a negative
\* one
C38_FlingSymmetric ==
  [][\A p \in Mounted, evt \in EndEvents, vel \in VelocityEvents :
       (gState[p] # "END" /\ gState'[p] = "END") =>
         \A k \in Pages, d \in {0, 50 * Px} :
           (FlingFromRest(p, k, d, evt, vel) /\ 2 * d < pageSize[p] * Px)
           => spring'[p].toValue =
                RestAt(IF MainAxis(p, vel) > 0 THEN k - 1 ELSE k + 1,
                       pageSize[p])]_vars
\* C39: once the opacity of the container of a pager goes to 1 it goes
\* to 1 after every later step
C39_VisibilityMonotone ==
  [][\A p \in Mounted : opacity(p) = 1 => opacity(p)' = 1]_vars
====
